---- MODULE Spec2Model ----
(***************************************************************************)
(* Pendant Watch (src/src/main.rs): a serial pendant bridge.  Inbound      *)
(* serial lines are turned into injected key events (Arrow mode: a         *)
(* Ctrl+direction chord, Gcode mode: the line typed as text), and local    *)
(* key presses switch mode, edit a pending buffer, send it, or quit.       *)
(*                                                                         *)
(* Text is a sequence of characters; a character is a one-token string.    *)
(* Characters outside ASCII are named by their code point ("U+0663").      *)
(***************************************************************************)
EXTENDS Integers, Sequences, FiniteSets, TLC

(***************************************************************************)
(* Characters                                                              *)
(***************************************************************************)

\* The Unicode scalar value of each character the model uses.
CodePoints ==
    [c \in {"\n", "\r", " ", "-", ".", "0", "1", "2", "3", "5", "9", ":",
            "C", "D", "E", "G", "O", "S", "T", "X", "Y", "Z",
            "a", "d", "e", "h", "i", "n", "p", "q", "t", "y",
            "U+00E9", "U+0663", "U+1F600"} |->
        CASE c = "\n" -> 10
          [] c = "\r" -> 13
          [] c = " " -> 32
          [] c = "-" -> 45
          [] c = "." -> 46
          [] c = "0" -> 48
          [] c = "1" -> 49
          [] c = "2" -> 50
          [] c = "3" -> 51
          [] c = "5" -> 53
          [] c = "9" -> 57
          [] c = ":" -> 58
          [] c = "C" -> 67
          [] c = "D" -> 68
          [] c = "E" -> 69
          [] c = "G" -> 71
          [] c = "O" -> 79
          [] c = "S" -> 83
          [] c = "T" -> 84
          [] c = "X" -> 88
          [] c = "Y" -> 89
          [] c = "Z" -> 90
          [] c = "a" -> 97
          [] c = "d" -> 100
          [] c = "e" -> 101
          [] c = "h" -> 104
          [] c = "i" -> 105
          [] c = "n" -> 110
          [] c = "p" -> 112
          [] c = "q" -> 113
          [] c = "t" -> 116
          [] c = "y" -> 121
          [] c = "U+00E9" -> 233      \* e with acute accent
          [] c = "U+0663" -> 1635     \* ARABIC-INDIC DIGIT THREE
          [] c = "U+1F600" -> 128512] \* an emoji outside the basic plane

CodePoint(c) == CodePoints[c]

\* char::is_whitespace, as str::trim uses it.
IsWhitespace(c) == c \in {" ", "\n", "\r"}

\* The regex class \d: in the regex crate it is Unicode-aware (\p{Nd}).
IsRegexDigit(c) == c \in {"0", "1", "2", "3", "5", "9", "U+0663"}

\* The digits f32::from_str accepts: ASCII only.
IsAsciiDigit(c) == CodePoint(c) >= 48 /\ CodePoint(c) <= 57

\* The number of bytes of a character's UTF-8 encoding.
Utf8Len(c) ==
    IF CodePoint(c) < 128 THEN 1
    ELSE IF CodePoint(c) < 2048 THEN 2
    ELSE IF CodePoint(c) < 65536 THEN 3
    ELSE 4

\* The UTF-8 encoding of one character.
Utf8Char(c) ==
    LET n == CodePoint(c)
    IN  IF n < 128 THEN <<n>>
        ELSE IF n < 2048 THEN <<192 + (n \div 64), 128 + (n % 64)>>
        ELSE IF n < 65536
             THEN <<224 + (n \div 4096), 128 + ((n \div 64) % 64), 128 + (n % 64)>>
        ELSE <<240 + (n \div 262144), 128 + ((n \div 4096) % 64),
               128 + ((n \div 64) % 64), 128 + (n % 64)>>

RECURSIVE as_bytes(_)
\* str::as_bytes: the UTF-8 bytes of a text.
as_bytes(s) ==
    IF s = <<>> THEN <<>> ELSE Utf8Char(Head(s)) \o as_bytes(Tail(s))

RECURSIVE ByteLenFrom(_, _)
\* The bytes of the characters of s from index i on.
ByteLenFrom(s, i) ==
    IF i > Len(s) THEN 0 ELSE Utf8Len(s[i]) + ByteLenFrom(s, i + 1)

\* str::len: the length of a text in bytes.
ByteLen(s) == ByteLenFrom(s, 1)

RECURSIVE BoundaryFrom(_, _, _)
\* Whether n bytes after the start of character i of s a character starts
\* (or s ends).
BoundaryFrom(s, i, n) ==
    IF n = 0 THEN TRUE
    ELSE IF i > Len(s) \/ Utf8Len(s[i]) > n THEN FALSE
    ELSE BoundaryFrom(s, i + 1, n - Utf8Len(s[i]))

\* str::is_char_boundary: whether byte index n starts a character of s.
IsCharBoundary(s, n) == BoundaryFrom(s, 1, n)

(***************************************************************************)
(* str::trim, str::starts_with                                             *)
(***************************************************************************)

RECURSIVE TrimStart(_)
TrimStart(s) ==
    IF s # <<>> /\ IsWhitespace(Head(s)) THEN TrimStart(Tail(s)) ELSE s

RECURSIVE TrimEnd(_)
TrimEnd(s) ==
    IF s # <<>> /\ IsWhitespace(s[Len(s)])
    THEN TrimEnd(SubSeq(s, 1, Len(s) - 1))
    ELSE s

Trim(s) == TrimEnd(TrimStart(s))

StartsWith(s, p) == Len(s) >= Len(p) /\ SubSeq(s, 1, Len(p)) = p

\* The prefix label the pendant may put before a command: "GCODE: ".
GcodePrefix == <<"G", "C", "O", "D", "E", ":", " ">>

\* Fault: the label is left on the command.
StripCommand_keeps(line) == Trim(line)

\* serial_to_arrow's first step: trim, then drop the 7-byte label if present.
StripCommand(line) ==
    LET command == Trim(line)
    IN  IF StartsWith(command, GcodePrefix)
        THEN SubSeq(command, 8, Len(command))
        ELSE command

(***************************************************************************)
(* The movement pattern of serial_to_arrow (line 246)                      *)
(***************************************************************************)

RECURSIVE DigitRunEnd(_, _)
\* The index of the last character of the longest run of \d starting at i
\* (i - 1 when s[i] is no digit): a greedy digit run of the pattern.
DigitRunEnd(s, i) ==
    IF i <= Len(s) /\ IsRegexDigit(s[i]) THEN DigitRunEnd(s, i + 1) ELSE i - 1

\* The fixed marker of the pattern.
Marker == <<"G", "9", "1", "G", "0">>

\* The axis class of the pattern.
AxisClass == {"X", "Y", "Z"}

\* Whether the pattern matches with its first character at index i.
MatchesAt(s, i) ==
    /\ i + 5 <= Len(s)
    /\ SubSeq(s, i, i + 4) = Marker
    /\ s[i + 5] \in AxisClass
    /\ LET d == IF i + 6 <= Len(s) /\ s[i + 6] = "-" THEN i + 7 ELSE i + 6
       IN  d <= Len(s) /\ IsRegexDigit(s[d])

\* The two capture groups of the match that starts at i.
CapturesAt(s, i) ==
    LET p  == i + 6
        d  == IF s[p] = "-" THEN p + 1 ELSE p
        e1 == DigitRunEnd(s, d)
        e2 == IF e1 + 1 <= Len(s) /\ s[e1 + 1] = "."
              THEN DigitRunEnd(s, e1 + 2)
              ELSE e1
    IN  [axis |-> s[i + 5], value |-> SubSeq(s, p, e2)]

\* Regex::captures: the leftmost match anywhere in the text, or none.
captures(s) ==
    LET starts == {i \in 1..Len(s) : MatchesAt(s, i)}
    IN  IF starts = {}
        THEN [matched |-> FALSE]
        ELSE LET i == CHOOSE j \in starts : \A k \in starts : j <= k
             IN  [matched |-> TRUE,
                  axis |-> CapturesAt(s, i).axis,
                  value |-> CapturesAt(s, i).value]

(***************************************************************************)
(* str::parse::<f32> on the second capture group                           *)
(***************************************************************************)

\* The 150 decimal places of 2^-150, half the smallest positive f32: a
\* decimal no greater than it rounds to zero (round to nearest, ties to even).
HalfMinSubnormal ==
    << 0,0,0,0,0,0,0,0,0,0, 0,0,0,0,0,0,0,0,0,0, 0,0,0,0,0,0,0,0,0,0,
       0,0,0,0,0,0,0,0,0,0, 0,0,0,0,0,
       7,0,0,6,4,9,2,3,2,1, 6,2,4,0,8,5,3,5,4,6, 1,8,6,4,7,9,1,6,4,4,
       9,5,8,0,6,5,6,4,0,1, 3,0,9,7,0,9,3,8,2,5, 7,8,8,5,8,7,8,5,3,4,
       1,4,1,9,4,4,8,9,5,5, 4,1,3,4,2,9,3,0,3,0, 0,7,4,3,3,1,9,0,9,4,
       1,8,1,0,6,0,7,9,1,0, 1,5,6,2,5 >>

\* The value of an ASCII digit.
DigitValue(c) == CodePoint(c) - 48

\* Whether the fraction 0.f (f a text of ASCII digits) is greater than 2^-150.
FractionAboveHalfMin(f) ==
    LET n == Len(HalfMinSubnormal)
        digit(k) == IF k <= Len(f) THEN DigitValue(f[k]) ELSE 0
        differ == {k \in 1..n : digit(k) # HalfMinSubnormal[k]}
    IN  IF differ = {}
        THEN \E k \in (n + 1)..Len(f) : DigitValue(f[k]) # 0
        ELSE LET k == CHOOSE j \in differ : \A m \in differ : j <= m
             IN  digit(k) > HalfMinSubnormal[k]

\* f32::from_str on the text of the second capture: an error when a digit
\* is not ASCII, otherwise the sign of the nearest f32 (1, 0 for either
\* zero, -1).
parse_f32(t) ==
    LET neg   == t # <<>> /\ t[1] = "-"
        body  == IF neg THEN Tail(t) ELSE t
        dots  == {k \in 1..Len(body) : body[k] = "."}
        dot   == IF dots = {} THEN Len(body) + 1 ELSE CHOOSE k \in dots : TRUE
        int   == SubSeq(body, 1, dot - 1)
        frac  == SubSeq(body, dot + 1, Len(body))
        ascii == \A k \in 1..Len(body) : body[k] = "." \/ IsAsciiDigit(body[k])
        nonzero == \/ \E k \in 1..Len(int) : DigitValue(int[k]) # 0
                   \/ FractionAboveHalfMin(frac)
    IN  IF ~ascii \/ Len(int) + Len(frac) = 0
        THEN [ok |-> FALSE, sign |-> 0]
        ELSE [ok |-> TRUE,
              sign |-> IF ~nonzero THEN 0 ELSE IF neg THEN -1 ELSE 1]

(***************************************************************************)
(* Injected input events (the INPUT structures handed to SendInput)        *)
(***************************************************************************)

VK_LEFT == 37
VK_UP == 38
VK_RIGHT == 39
VK_DOWN == 40
VK_PAGEUP == 33
VK_PAGEDOWN == 34
VK_CONTROL == 17
VK_RETURN == 13
KEYEVENTF_KEYUP == 2
KEYEVENTF_UNICODE == 4

\* send_key_down: one key-down INPUT for a virtual key.
send_key_down(key_code) == [wVk |-> key_code, wScan |-> 0, dwFlags |-> 0]

\* send_key_up: one key-up INPUT for a virtual key.
send_key_up(key_code) ==
    [wVk |-> key_code, wScan |-> 0, dwFlags |-> KEYEVENTF_KEYUP]

\* `ch as u16`: the scan code type_text puts in the INPUT.
ScanCode(ch) == CodePoint(ch) % 65536

RECURSIVE type_text(_)
\* type_text: a Unicode down and a Unicode up INPUT per character, in order.
type_text(text) ==
    IF text = <<>>
    THEN <<>>
    ELSE << [wVk |-> 0, wScan |-> ScanCode(Head(text)),
             dwFlags |-> KEYEVENTF_UNICODE],
            [wVk |-> 0, wScan |-> ScanCode(Head(text)),
             dwFlags |-> KEYEVENTF_KEYUP + KEYEVENTF_UNICODE] >>
         \o type_text(Tail(text))

\* Fault: Ctrl released before the key.
Chord_interleaved(vk) ==
    << send_key_down(VK_CONTROL), send_key_down(vk),
       send_key_up(VK_CONTROL), send_key_up(vk) >>

\* The Ctrl+key combination serial_to_arrow sends.
Chord(vk) ==
    << send_key_down(VK_CONTROL), send_key_down(vk),
       send_key_up(vk), send_key_up(VK_CONTROL) >>

(***************************************************************************)
(* Option, and the records of last_command                                 *)
(***************************************************************************)

None == [some |-> FALSE]
Some(v) == [some |-> TRUE, val |-> v]

\* format!("Typed: {}", line)
TypedRecord(line) == <<"T", "y", "p", "e", "d", ":", " ">> \o line

\* format!("Sent: {}", state.gcode_input)
SentRecord(input) == <<"S", "e", "n", "t", ":", " ">> \o input

\* Fault: a carriage return before the line feed.
OutboundLine_crlf(input) == input \o <<"\r", "\n">>

\* format!("{}\n", state.gcode_input)
OutboundLine(input) == input \o <<"\n">>

(***************************************************************************)
(* serial_to_arrow                                                         *)
(***************************************************************************)

\* Fault: `>=` for `>`, so that zero selects the positive direction.
KeyName_ge(axis, sign) ==
    CASE axis = "Y" -> IF sign >= 0 THEN "up" ELSE "down"
      [] axis = "X" -> IF sign >= 0 THEN "right" ELSE "left"
      [] axis = "Z" -> IF sign >= 0 THEN "pageup" ELSE "pagedown"
      [] OTHER -> "invalid"

\* The first match of serial_to_arrow: axis and value to a key name.
KeyName(axis, sign) ==
    CASE axis = "Y" -> IF sign > 0 THEN "up" ELSE "down"
      [] axis = "X" -> IF sign > 0 THEN "right" ELSE "left"
      [] axis = "Z" -> IF sign > 0 THEN "pageup" ELSE "pagedown"
      [] OTHER -> "invalid"

\* The second match of serial_to_arrow: key name to virtual key code
\* (0 stands for the arm that returns false).
KeyCodeOf(key) ==
    CASE key = "left" -> VK_LEFT
      [] key = "up" -> VK_UP
      [] key = "right" -> VK_RIGHT
      [] key = "down" -> VK_DOWN
      [] key = "pageup" -> VK_PAGEUP
      [] key = "pagedown" -> VK_PAGEDOWN
      [] OTHER -> 0

\* serial_to_arrow on a line: the command it records, the events it sends,
\* whether the unwrap of the parse panics, and its return value.
serial_to_arrow(line) ==
    LET command == StripCommand(line)
        caps    == captures(command)
        value   == parse_f32(caps.value)
        vk      == KeyCodeOf(KeyName(caps.axis, value.sign))
    IN  IF ~caps.matched
        THEN [command |-> command, sent |-> <<>>, panic |-> FALSE, ret |-> FALSE]
        ELSE IF ~value.ok
        THEN [command |-> command, sent |-> <<>>, panic |-> TRUE, ret |-> FALSE]
        ELSE IF vk = 0
        THEN [command |-> command, sent |-> <<>>, panic |-> FALSE, ret |-> FALSE]
        ELSE [command |-> command, sent |-> Chord(vk), panic |-> FALSE,
              ret |-> TRUE]

\* serial_to_gcode on a line: the events it sends, then the record it keeps.
serial_to_gcode(line) ==
    [command |-> TypedRecord(line),
     sent |-> type_text(line) \o <<send_key_down(VK_RETURN), send_key_up(VK_RETURN)>>]

(***************************************************************************)
(* draw_status_bar                                                         *)
(***************************************************************************)

\* Whether &cmd[..17] of the truncation panics: the command is longer than
\* 20 bytes and byte 17 is inside a character.
SlicePanics(lc) ==
    lc.some /\ ByteLen(lc.val) > 20 /\ ~IsCharBoundary(lc.val, 17)

(***************************************************************************)
(* Bounds and inputs                                                       *)
(***************************************************************************)

\* The number of clock readings (lines routed plus commands sent) in a run.
MaxNow == 2

\* The longest pending buffer the operator types.
MaxBuf == 2

\* The number of lines the device sends in a run with the device in it.
MaxLines == 2

\* The number of keys the operator presses in a run with the keyboard in it.
MaxKeys == 2

\* The same two numbers for the runs checked for progress.
LiveLines == 1
LiveKeys == 1

Newline == <<"\n">>

\* "GCODE: G91G0X10.5": a prefixed move along X, positive.
LineRight ==
    GcodePrefix \o <<"G", "9", "1", "G", "0", "X", "1", "0", ".", "5">> \o Newline

\* "G91G0Y-3": a move along Y, negative, ended by "\r\n".
LineDown == <<"G", "9", "1", "G", "0", "Y", "-", "3", "\r", "\n">>

\* "hi": text outside the movement pattern.
LineText == <<"h", "i">> \o Newline

\* "G91G0X" and an Arabic-Indic digit: inside the pattern, not an f32.
LineArabic == <<"G", "9", "1", "G", "0", "X", "U+0663">> \o Newline

\* Four emoji: with "Typed: " before them, byte 17 is inside the third.
LineEmoji == <<"U+1F600", "U+1F600", "U+1F600", "U+1F600">> \o Newline

\* "GCODE: hi": the label before text outside the movement pattern.
LineLabelled == GcodePrefix \o <<"h", "i">> \o Newline

\* The lines read_line returns in the model, each with its terminator.
Lines == {LineRight, LineDown, LineText, LineLabelled, LineArabic, LineEmoji,
          Newline}

Char(c) == [code |-> "Char", ch |-> c]
Enter == [code |-> "Enter", ch |-> ""]
Backspace == [code |-> "Backspace", ch |-> ""]
Esc == [code |-> "Esc", ch |-> ""]

\* The key events event::read returns in the model.
Keys == {Char("1"), Char("2"), Char("q"), Char("G"), Char("0"),
         Enter, Backspace, Esc}

\* The text the operator types in the model, "G0G0...": its i-th character.
Typed(i) == IF i % 2 = 1 THEN "G" ELSE "0"

\* What stdout does to one draw_status_bar: take the output, or fail the
\* flush that ends it.
DrawFates == {"ok", "err"}

(***************************************************************************)
(* State                                                                   *)
(***************************************************************************)

VARIABLES
    mode,               \* AppState.mode: "Arrow" or "Gcode"
    connected,          \* AppState.connected
    last_command,       \* AppState.last_command: Option<String>
    last_command_time,  \* AppState.last_command_time: Option<Instant>
    gcode_input,        \* AppState.gcode_input
    events,             \* every INPUT handed to SendInput so far, in order
    written,            \* every byte written to the serial port so far
    raw_mode,           \* whether the terminal is in raw mode
    now,                \* the monotonic clock: the last reading of Instant::now()
    pc,                 \* where the process is
    fault,              \* the error or panic that ended the process, if any
    dispatched,         \* the input the last step handled
    mode_key,           \* the last of the keys '1' and '2' dispatched
    device,             \* the pendant: the lines of its run, the text not yet sent
    inbound,            \* the text received from the port and not yet read
    keyboard,           \* the key events pressed and not yet read
    routed,             \* the lines read_line has returned from `inbound`
    presses             \* the number of keys the operator has yet to press

vars == <<mode, connected, last_command, last_command_time, gcode_input,
          events, written, raw_mode, now, pc, fault, dispatched, mode_key,
          device, inbound, keyboard, routed, presses>>

\* The device and the keyboard as states of the model.
env == <<device, inbound, keyboard, routed, presses>>

NoKey == [code |-> "", ch |-> ""]
Nothing == [kind |-> "none", line |-> <<>>, key |-> NoKey]
GotLine(raw) == [kind |-> "line", line |-> raw, key |-> NoKey]
GotKey(key) == [kind |-> "key", line |-> <<>>, key |-> key]

\* A device that sends nothing and a keyboard nobody has touched.
Quiet ==
    /\ device = [lines |-> <<>>, wire |-> <<>>]
    /\ inbound = <<>>
    /\ keyboard = <<>>
    /\ routed = <<>>
    /\ presses = 0

\* AppState::new(), before main has done anything.
Boot ==
    /\ mode = "Gcode"
    /\ connected = FALSE
    /\ last_command = None
    /\ last_command_time = None
    /\ gcode_input = <<>>
    /\ events = <<>>
    /\ written = <<>>
    /\ raw_mode = FALSE
    /\ now = 0
    /\ pc = "main"
    /\ fault = "none"
    /\ dispatched = Nothing
    /\ mode_key = "none"

\* The program before main, its inputs given step by step by the actions
\* (the device and the keyboard are not states of this specification).
Init == Boot /\ Quiet

\* draw_status_bar under a stdout fate: "ok", "err" (io::stdout().flush()?
\* fails) or "slice" (the truncation of the last command panics, before
\* the flush).
draw_status_bar(lc, fate) == IF SlicePanics(lc) THEN "slice" ELSE fate

\* The end of a step that finishes with draw_status_bar(state)?: the flush
\* error is returned by `?` under the name of the call.
Drawn(lc, fate) ==
    LET d == draw_status_bar(lc, fate)
    IN  IF d = "err" THEN "draw_status_bar" ELSE d

\* Fault: the 'q' arm returns to the loop.
PcAfter_returns(end, next) ==
    CASE end \in {"ok", "exit"} -> next
      [] end \in {"unwrap", "slice"} -> "panicked"
      [] OTHER -> "loop_failed"

\* Where the process is after a step that ended with `end`: "ok", "exit",
\* the name of a panic, or the name of the call whose error `?` returned.
PcAfter(end, next) ==
    CASE end = "ok" -> next
      [] end = "exit" -> "exited"
      [] end \in {"unwrap", "slice"} -> "panicked"
      [] OTHER -> "loop_failed"

FaultAfter(end) == IF end \in {"ok", "exit"} THEN "none" ELSE end

(***************************************************************************)
(* main, up to the event loop                                              *)
(***************************************************************************)

\* The ways the start of main can go: the port does not open, try_clone
\* fails, enable_raw_mode fails, or all is well.
StartOutcomes == {"open", "try_clone", "enable_raw_mode", "ok"}

\* main, from its first line to the call of run_event_loop.
Startup(o, fate) ==
    LET drawn == draw_status_bar(last_command, fate)
        end == IF o # "ok" THEN o
               ELSE IF drawn = "err" THEN "draw_status_bar"
               ELSE drawn
    IN  /\ pc = "main"
        /\ connected' = (o \in {"enable_raw_mode", "ok"})
        /\ raw_mode' = (o = "ok")
        /\ pc' = CASE end = "ok" -> "read_line"
                   [] end = "slice" -> "panicked"
                   [] OTHER -> "startup_failed"
        /\ fault' = FaultAfter(end)
        /\ UNCHANGED <<mode, last_command, last_command_time, gcode_input,
                       events, written, now, dispatched, mode_key>>

(***************************************************************************)
(* run_event_loop: the inbound phase                                       *)
(***************************************************************************)

\* Fault: the key at the head of the keyboard queue is handled before the
\* line is routed, so that a pending '1' or '2' decides the routing.
Route_after_key(raw) ==
    LET line == Trim(raw)
        m == IF keyboard # <<>> /\ Head(keyboard) = Char("1") THEN "Arrow"
             ELSE IF keyboard # <<>> /\ Head(keyboard) = Char("2") THEN "Gcode"
             ELSE mode
    IN  IF m = "Arrow"
        THEN LET r == serial_to_arrow(line)
             IN  [command |-> r.command, sent |-> r.sent, panic |-> r.panic]
        ELSE LET r == serial_to_gcode(line)
             IN  [command |-> r.command, sent |-> r.sent, panic |-> FALSE]

\* Fault: a line that holds a movement command is sent to serial_to_arrow
\* whatever the mode.
Route_by_content(raw) ==
    LET line == Trim(raw)
    IN  IF mode = "Arrow" \/ captures(StripCommand(line)).matched
        THEN LET r == serial_to_arrow(line)
             IN  [command |-> r.command, sent |-> r.sent, panic |-> r.panic]
        ELSE LET r == serial_to_gcode(line)
             IN  [command |-> r.command, sent |-> r.sent, panic |-> FALSE]

\* The routing of one line read from the port: trim, then by mode.
Route(raw) ==
    LET line == Trim(raw)
    IN  IF mode = "Arrow"
        THEN LET r == serial_to_arrow(line)
             IN  [command |-> r.command, sent |-> r.sent, panic |-> r.panic]
        ELSE LET r == serial_to_gcode(line)
             IN  [command |-> r.command, sent |-> r.sent, panic |-> FALSE]

\* read_line returned Ok(n) with n > 0: the line is routed, then the status
\* bar is drawn.
SerialLine(raw, fate) ==
    /\ pc = "read_line"
    /\ now < MaxNow
    /\ \E r \in {Route(raw)} :
          \E end \in {IF r.panic THEN "unwrap"
                      ELSE Drawn(Some(r.command), fate)} :
             /\ now' = now + 1
             /\ last_command' = Some(r.command)
             /\ last_command_time' = Some(now')
             /\ events' = events \o r.sent
             /\ pc' = PcAfter(end, "poll")
             /\ fault' = FaultAfter(end)
             /\ dispatched' = GotLine(raw)
             /\ UNCHANGED <<mode, connected, gcode_input, written, raw_mode,
                            mode_key>>

\* read_line returned a timeout, another error, or Ok(0): nothing is done.
SerialNone ==
    /\ pc = "read_line"
    /\ pc' = "poll"
    /\ dispatched' = Nothing
    /\ UNCHANGED <<mode, connected, last_command, last_command_time,
                   gcode_input, events, written, raw_mode, now, fault, mode_key>>

(***************************************************************************)
(* handle_key_press                                                        *)
(***************************************************************************)

\* Fault: the first character removed, not the last.
pop_first(s) == IF s = <<>> THEN s ELSE Tail(s)

\* String::pop
pop(s) == IF s = <<>> THEN s ELSE SubSeq(s, 1, Len(s) - 1)

\* String::push
push(s, c) == Append(s, c)

\* The session as handle_key_press leaves it.
Session(m, lc, lct, input, t, out, end) ==
    [mode |-> m, last_command |-> lc, last_command_time |-> lct,
     gcode_input |-> input, now |-> t, written |-> out, end |-> end]

\* Fault: in Gcode mode the character arm takes '1' before the '1' arm does.
ArmArrow_typed(fate) ==
    IF mode = "Gcode"
    THEN Session(mode, last_command, last_command_time,
                 push(gcode_input, "1"), now, written, Drawn(last_command, fate))
    ELSE Session("Arrow", last_command, last_command_time, gcode_input, now,
                 written, Drawn(last_command, fate))

\* Fault: the switch to Arrow mode drops the pending buffer.
ArmArrow_clears(fate) ==
    Session("Arrow", last_command, last_command_time, <<>>, now,
            written, Drawn(last_command, fate))

\* The arm KeyCode::Char('1').
ArmArrow(fate) ==
    Session("Arrow", last_command, last_command_time, gcode_input, now,
            written, Drawn(last_command, fate))

\* Fault: the '2' arm leaves the mode as it is.
ArmGcode_stays(fate) ==
    Session(mode, last_command, last_command_time, gcode_input, now,
            written, Drawn(last_command, fate))

\* The arm KeyCode::Char('2').
ArmGcode(fate) ==
    Session("Gcode", last_command, last_command_time, gcode_input, now,
            written, Drawn(last_command, fate))

\* The arm KeyCode::Char('q'): std::process::exit(0).
ArmQuit ==
    Session(mode, last_command, last_command_time, gcode_input, now,
            written, "exit")

\* An arm that does nothing: Enter on an empty buffer, and `_ => {}`.
ArmNothing ==
    Session(mode, last_command, last_command_time, gcode_input, now,
            written, "ok")

\* The arm KeyCode::Enter in Gcode mode with a non-empty buffer: write_all
\* puts `wrote` bytes on the port (all of them when it succeeds), then flush.
ArmSend(wrote, flush, fate) ==
    LET gcode == as_bytes(OutboundLine(gcode_input))
        out == written \o SubSeq(gcode, 1, wrote)
        sent == Some(SentRecord(gcode_input))
    IN  IF wrote < Len(gcode)
        THEN Session(mode, last_command, last_command_time, gcode_input, now,
                     out, "write_all")
        ELSE IF flush = "err"
        THEN Session(mode, last_command, last_command_time, gcode_input, now,
                     out, "flush")
        ELSE Session(mode, sent, Some(now + 1), <<>>, now + 1, out,
                     Drawn(sent, fate))

\* The arm KeyCode::Backspace in Gcode mode.
ArmBackspace(fate) ==
    Session(mode, last_command, last_command_time, pop(gcode_input), now,
            written, Drawn(last_command, fate))

\* The arm KeyCode::Char(c) in Gcode mode.
ArmChar(c, fate) ==
    Session(mode, last_command, last_command_time, push(gcode_input, c), now,
            written, Drawn(last_command, fate))

\* Fault: the is_empty test left out.
ArmEnter_unchecked(wrote, flush, fate) == ArmSend(wrote, flush, fate)

\* The arm KeyCode::Enter in Gcode mode.
ArmEnter(wrote, flush, fate) ==
    IF gcode_input # <<>> THEN ArmSend(wrote, flush, fate) ELSE ArmNothing

\* Fault: the Backspace and character arms without their mode guards.
handle_key_press_any_mode(key, wrote, flush, fate) ==
    CASE key = Char("1") -> ArmArrow(fate)
      [] key = Char("2") -> ArmGcode(fate)
      [] key = Char("q") -> ArmQuit
      [] key \notin {Char("1"), Char("2"), Char("q")} /\ key.code = "Enter"
           /\ mode = "Gcode" -> ArmEnter(wrote, flush, fate)
      [] key \notin {Char("1"), Char("2"), Char("q")} /\ key.code = "Backspace"
           -> ArmBackspace(fate)
      [] key \notin {Char("1"), Char("2"), Char("q")} /\ key.code = "Char"
           -> ArmChar(key.ch, fate)
      [] OTHER -> ArmNothing

\* handle_key_press: the first arm of the match that takes the key.
handle_key_press(key, wrote, flush, fate) ==
    CASE key = Char("1") -> ArmArrow(fate)
      [] key = Char("2") -> ArmGcode(fate)
      [] key = Char("q") -> ArmQuit
      [] key \notin {Char("1"), Char("2"), Char("q")} /\ key.code = "Enter"
           /\ mode = "Gcode" -> ArmEnter(wrote, flush, fate)
      [] key \notin {Char("1"), Char("2"), Char("q")} /\ key.code = "Backspace"
           /\ mode = "Gcode" -> ArmBackspace(fate)
      [] key \notin {Char("1"), Char("2"), Char("q")} /\ key.code = "Char"
           /\ mode = "Gcode" -> ArmChar(key.ch, fate)
      [] OTHER -> ArmNothing

(***************************************************************************)
(* run_event_loop: the local-input phase                                   *)
(***************************************************************************)

\* Whether the key takes the arm that writes to the port.
Sends(key) == key = Enter /\ mode = "Gcode" /\ gcode_input # <<>>

\* The inputs the model lets the environment give to a key press: the
\* clock and the buffer stay within the bounds, and what is typed into the
\* buffer is the next character of the operator's text.
KeyAllowed(key) ==
    /\ Sends(key) => now < MaxNow
    /\ (key.code = "Char" /\ key \notin {Char("1"), Char("2"), Char("q")}
        /\ mode = "Gcode") =>
           Len(gcode_input) < MaxBuf /\ key.ch = Typed(Len(gcode_input) + 1)

\* What write_all can do with the pending line: put any number of its bytes
\* on the port before it fails, or all of them.
WriteOutcomes(key) ==
    IF key = Enter /\ mode = "Gcode"
    THEN 0..Len(as_bytes(OutboundLine(gcode_input)))
    ELSE {0}

\* What flush can do after it.
FlushOutcomes(key) ==
    IF key = Enter /\ mode = "Gcode" THEN {"ok", "err"} ELSE {"ok"}

\* Fault: a character key is also injected as a keystroke.
KeyPress_typed(key, wrote, flush, fate) ==
    LET s == handle_key_press(key, wrote, flush, fate)
        end == IF s.end = "ok" /\ s.mode = "Gcode"
               THEN Drawn(s.last_command, fate)
               ELSE s.end
    IN  /\ pc = "poll"
        /\ KeyAllowed(key)
        /\ mode' = s.mode
        /\ last_command' = s.last_command
        /\ last_command_time' = s.last_command_time
        /\ gcode_input' = s.gcode_input
        /\ now' = s.now
        /\ written' = s.written
        /\ events' = IF key.code = "Char"
                     THEN events \o type_text(<<key.ch>>)
                     ELSE events
        /\ pc' = PcAfter(end, "read_line")
        /\ fault' = FaultAfter(end)
        /\ dispatched' = GotKey(key)
        /\ mode_key' = IF key \in {Char("1"), Char("2")} THEN key.ch ELSE mode_key
        /\ UNCHANGED <<connected, raw_mode>>

\* event::poll returned Ok(true) and event::read a key event: the key is
\* handled, and in Gcode mode the status bar is drawn once more.  One fate
\* of stdout covers both draws of the step: nothing changes between them,
\* so a failure of the second alone ends in the state a failure of the
\* first ends in.
KeyPress(key, wrote, flush, fate) ==
    LET s == handle_key_press(key, wrote, flush, fate)
        end == IF s.end = "ok" /\ s.mode = "Gcode"
               THEN Drawn(s.last_command, fate)
               ELSE s.end
    IN  /\ pc = "poll"
        /\ KeyAllowed(key)
        /\ mode' = s.mode
        /\ last_command' = s.last_command
        /\ last_command_time' = s.last_command_time
        /\ gcode_input' = s.gcode_input
        /\ now' = s.now
        /\ written' = s.written
        /\ pc' = PcAfter(end, "read_line")
        /\ fault' = FaultAfter(end)
        /\ dispatched' = GotKey(key)
        /\ mode_key' = IF key \in {Char("1"), Char("2")} THEN key.ch ELSE mode_key
        /\ UNCHANGED <<connected, events, raw_mode>>

\* event::poll returned Ok(false), or event::read an event that is no key.
PollNone ==
    /\ pc = "poll"
    /\ pc' = "read_line"
    /\ dispatched' = Nothing
    /\ UNCHANGED <<mode, connected, last_command, last_command_time,
                   gcode_input, events, written, raw_mode, now, fault, mode_key>>

\* event::poll or event::read returned an error: `?` leaves the loop.
PollErr ==
    /\ pc = "poll"
    /\ pc' = "loop_failed"
    /\ fault' = "event"
    /\ dispatched' = Nothing
    /\ UNCHANGED <<mode, connected, last_command, last_command_time,
                   gcode_input, events, written, raw_mode, now, mode_key>>

(***************************************************************************)
(* The program                                                             *)
(***************************************************************************)

Next ==
    \/ \E o \in StartOutcomes, fate \in DrawFates :
          Startup(o, fate) /\ UNCHANGED env
    \/ \E raw \in Lines, fate \in DrawFates :
          SerialLine(raw, fate) /\ UNCHANGED env
    \/ SerialNone /\ UNCHANGED env
    \/ \E key \in Keys :
          \E wrote \in WriteOutcomes(key), flush \in FlushOutcomes(key),
             fate \in DrawFates :
                KeyPress(key, wrote, flush, fate) /\ UNCHANGED env
    \/ PollNone /\ UNCHANGED env
    \/ PollErr /\ UNCHANGED env

Spec == Init /\ [][Next]_vars

(***************************************************************************)
(* serial_to_arrow over the whole table: one line, drawn from every axis   *)
(* and a range of magnitudes, routed in Arrow mode                         *)
(***************************************************************************)

RECURSIVE Zeros(_)
\* A text of n zeros.
Zeros(n) == IF n = 0 THEN <<>> ELSE <<"0">> \o Zeros(n - 1)

\* Magnitude texts, each with the sign of the f32 nearest to it (fits says
\* whether the text is an f32 literal at all).
Magnitudes ==
    { [text |-> <<"1", "0", ".", "5">>, fits |-> TRUE, sign |-> 1],
      [text |-> <<"5">>, fits |-> TRUE, sign |-> 1],
      [text |-> <<"3", ".">>, fits |-> TRUE, sign |-> 1],
      [text |-> <<"0", ".", "0", "1">>, fits |-> TRUE, sign |-> 1],
      [text |-> <<"-", "3">>, fits |-> TRUE, sign |-> -1],
      [text |-> <<"-", "0", ".", "5">>, fits |-> TRUE, sign |-> -1],
      [text |-> <<"0">>, fits |-> TRUE, sign |-> 0],
      [text |-> <<"0", ".", "0">>, fits |-> TRUE, sign |-> 0],
      [text |-> <<"-", "0">>, fits |-> TRUE, sign |-> 0],
      \* 1e-45 rounds up to the smallest positive f32 ...
      [text |-> <<"0", ".">> \o Zeros(44) \o <<"1">>, fits |-> TRUE, sign |-> 1],
      \* ... and 1e-46 rounds to zero.
      [text |-> <<"0", ".">> \o Zeros(45) \o <<"1">>, fits |-> TRUE, sign |-> 0],
      [text |-> <<"U+0663">>, fits |-> FALSE, sign |-> 0] }

\* The line the pendant sends for a move: the label if any, the marker, the
\* axis, the magnitude, the terminator.
MoveLine(label, axis, text) ==
    (IF label THEN GcodePrefix ELSE <<>>) \o Marker \o <<axis>> \o text \o Newline

MoveLines ==
    {MoveLine(label, axis, m.text) : label \in BOOLEAN, axis \in AxisClass,
                                     m \in Magnitudes}

\* Lines outside the pattern: an axis outside the class, no digit, a sign
\* and no digit, plain text.
OtherLines ==
    { Marker \o <<"a", "5">> \o Newline,
      Marker \o <<"X">> \o Newline,
      Marker \o <<"X", "-">> \o Newline,
      LineText }

TableLines == MoveLines \cup OtherLines

\* The session in Arrow mode, about to read the port: main has started and
\* the key '1' has been handled.
TableInit ==
    /\ mode = "Arrow"
    /\ connected = TRUE
    /\ last_command = None
    /\ last_command_time = None
    /\ gcode_input = <<>>
    /\ events = <<>>
    /\ written = <<>>
    /\ raw_mode = TRUE
    /\ now = 0
    /\ pc = "read_line"
    /\ fault = "none"
    /\ dispatched = GotKey(Char("1"))
    /\ mode_key = "1"
    /\ Quiet

TableNext ==
    \E raw \in TableLines, fate \in DrawFates :
        SerialLine(raw, fate) /\ UNCHANGED env

TableSpec == TableInit /\ [][TableNext]_vars


(***************************************************************************)
(* The event loop with the device and the keyboard as processes: the       *)
(* pendant sends its lines piece by piece, the operator presses keys, and  *)
(* each tick reads what has arrived                                        *)
(***************************************************************************)

\* The lines the pendant sends in these runs: a move and plain text.
DeviceLines == {LineDown, LineText}

\* The writes by which the pendant puts a line on the wire: its first half,
\* then the rest with the terminator.
Pieces(line) ==
    << SubSeq(line, 1, Len(line) \div 2),
       SubSeq(line, Len(line) \div 2 + 1, Len(line)) >>

RECURSIVE Writes(_)
\* The writes of a run of lines, in order.
Writes(ls) == IF ls = <<>> THEN <<>> ELSE Pieces(Head(ls)) \o Writes(Tail(ls))

\* The runs of the pendant: MaxLines lines.
Scripts == [1..MaxLines -> DeviceLines]

\* The keys the operator presses in these runs.
LoopKeys == {Char("1"), Char("2"), Char("q")}

\* The program before main, a pendant with one of the runs in hand and an
\* operator with n keys to press.
LoopStart(runs, n) ==
    /\ Boot
    /\ \E ls \in runs : device = [lines |-> ls, wire |-> Writes(ls)]
    /\ inbound = <<>>
    /\ keyboard = <<>>
    /\ routed = <<>>
    /\ presses = n

LoopInit == LoopStart(Scripts, MaxKeys)

\* The process is in run_event_loop.
Running == pc \in {"read_line", "poll"}

\* The pendant writes the next piece; the port receives it.
DeviceSends ==
    /\ Running
    /\ device.wire # <<>>
    /\ inbound' = inbound \o Head(device.wire)
    /\ device' = [device EXCEPT !.wire = Tail(@)]
    /\ UNCHANGED <<mode, connected, last_command, last_command_time,
                   gcode_input, events, written, raw_mode, now, pc, fault,
                   dispatched, mode_key, keyboard, routed, presses>>

\* The operator presses a key; the terminal queues the event.
OperatorPresses(key) ==
    /\ Running
    /\ presses > 0
    /\ keyboard' = Append(keyboard, key)
    /\ presses' = presses - 1
    /\ UNCHANGED <<mode, connected, last_command, last_command_time,
                   gcode_input, events, written, raw_mode, now, pc, fault,
                   dispatched, mode_key, device, inbound, routed>>

\* Whether the text holds a line feed.
HasLine(s) == \E i \in DOMAIN s : s[i] = "\n"

\* read_until(b'\n'): the text up to and with the first line feed.
FirstLine(s) ==
    LET end == CHOOSE i \in DOMAIN s :
                   s[i] = "\n" /\ \A j \in 1..(i - 1) : s[j] # "\n"
    IN  SubSeq(s, 1, end)

\* read_line returns a line: what has arrived holds a line feed.  The line
\* is routed; what follows it stays in the reader.
ReadLine(fate) ==
    /\ HasLine(inbound)
    /\ \E raw \in {FirstLine(inbound)} :
          /\ SerialLine(raw, fate)
          /\ inbound' = SubSeq(inbound, Len(raw) + 1, Len(inbound))
          /\ routed' = Append(routed, [line |-> raw, waiting |-> Len(keyboard)])
    /\ UNCHANGED <<device, keyboard, presses>>

\* Fault: a read that waits for its line feed without a timeout.
ReadTimeout_blocks ==
    /\ FALSE
    /\ UNCHANGED vars

\* read_line returns Err(TimedOut): no line feed has arrived within the
\* 10 ms of the port.  What it had read is in `line`, which the next tick
\* replaces by String::new().
ReadTimeout ==
    /\ ~HasLine(inbound)
    /\ SerialNone
    /\ inbound' = <<>>
    /\ UNCHANGED <<device, keyboard, routed, presses>>

\* event::poll returns Ok(true): the first queued key event is read and
\* handled.
PollKey(fate) ==
    /\ keyboard # <<>>
    /\ KeyPress(Head(keyboard), 0, "ok", fate)
    /\ keyboard' = Tail(keyboard)
    /\ UNCHANGED <<device, inbound, routed, presses>>

\* event::poll returns Ok(false) after its 10 ms: no key event is queued.
PollTimeout ==
    /\ keyboard = <<>>
    /\ PollNone
    /\ UNCHANGED env

\* One step of the process inside run_event_loop.
Tick ==
    \/ \E fate \in DrawFates : ReadLine(fate)
    \/ ReadTimeout
    \/ \E fate \in DrawFates : PollKey(fate)
    \/ PollTimeout

LoopNext ==
    \/ \E o \in StartOutcomes, fate \in DrawFates :
          Startup(o, fate) /\ UNCHANGED env
    \/ DeviceSends
    \/ \E key \in LoopKeys : OperatorPresses(key)
    \/ Tick

LoopSpec == LoopInit /\ [][LoopNext]_vars

\* The runs checked for progress: LiveLines lines of plain text, LiveKeys
\* keys.
LiveInit == LoopStart([1..LiveLines -> {LineText}], LiveKeys)

\* The process is sequential and both waits are bounded (the 10 ms of the
\* port, line 303, and of event::poll, line 365): while it is in the loop it
\* takes its next step.  Nothing is assumed of the device or the operator.
LiveSpec == LiveInit /\ [][LoopNext]_vars /\ WF_vars(Tick)

(***************************************************************************)
(* Properties                                                              *)
(***************************************************************************)

\* A step of the inbound phase that routes a line.
LineStep == pc = "read_line" /\ pc' # "read_line" /\ dispatched'.kind = "line"

\* A step of the local-input phase that handles the key.
KeyStep(key) == pc = "poll" /\ pc' # "poll" /\ dispatched' = GotKey(key)

\* The events of the injection capability: key-down and key-up of a code.
Down(vk) == [wVk |-> vk, wScan |-> 0, dwFlags |-> 0]
Up(vk) == [wVk |-> vk, wScan |-> 0, dwFlags |-> 2]

Directional == {VK_LEFT, VK_UP, VK_RIGHT, VK_DOWN, VK_PAGEUP, VK_PAGEDOWN}

\* The events from index i on are Ctrl down, a directional key down, the
\* same key up, Ctrl up.
ChordAt(es, i) ==
    /\ i >= 1
    /\ i + 3 <= Len(es)
    /\ es[i] = Down(VK_CONTROL)
    /\ \E k \in Directional : es[i + 1] = Down(k) /\ es[i + 2] = Up(k)
    /\ es[i + 3] = Up(VK_CONTROL)

\* Every Ctrl and directional event of the trace has its place in a chord.
WellNested(es) ==
    \A i \in 1..Len(es) :
        /\ es[i] = Down(VK_CONTROL) => ChordAt(es, i)
        /\ es[i] = Up(VK_CONTROL) => ChordAt(es, i - 3)
        /\ (es[i].wVk \in Directional /\ es[i].dwFlags = 0) => ChordAt(es, i - 1)
        /\ (es[i].wVk \in Directional /\ es[i].dwFlags # 0) => ChordAt(es, i - 2)

\* The lines of the model that are movement commands: the pattern matches
\* and the magnitude is a number.
MovementLines == {LineRight, LineDown}

\* C1: a movement line routed in Arrow mode adds exactly four events, Ctrl
\* down, a directional key down, the same key up, Ctrl up; and in the whole
\* trace of events every Ctrl and directional event sits in such a chord.
C1_ChordNesting ==
    /\ [](WellNested(events))
    /\ [][(LineStep /\ mode = "Arrow" /\ dispatched'.line \in MovementLines) =>
            /\ Len(events') = Len(events) + 4
            /\ SubSeq(events', 1, Len(events)) = events
            /\ ChordAt(events', Len(events) + 1)]_vars

\* Two movement lines in a row have been routed: two chords in the trace.
C1_Witness ==
    /\ dispatched = GotLine(LineDown)
    /\ mode = "Arrow"
    /\ events = << Down(VK_CONTROL), Down(VK_RIGHT), Up(VK_RIGHT), Up(VK_CONTROL),
                   Down(VK_CONTROL), Down(VK_DOWN), Up(VK_DOWN), Up(VK_CONTROL) >>

\* The table of directions: axis and sign of the magnitude to a key.
TableKey(axis, sign) ==
    CASE axis = "Y" /\ sign > 0 -> VK_UP
      [] axis = "Y" /\ sign <= 0 -> VK_DOWN
      [] axis = "X" /\ sign > 0 -> VK_RIGHT
      [] axis = "X" /\ sign <= 0 -> VK_LEFT
      [] axis = "Z" /\ sign > 0 -> VK_PAGEUP
      [] axis = "Z" /\ sign <= 0 -> VK_PAGEDOWN

\* C2: for every axis and every magnitude that is a number, with or without
\* the "GCODE: " label, the key of the chord is the one the table gives for
\* the axis and the sign of the magnitude; zero ("0", "0.0", "-0") selects
\* the non-positive direction.
C2_KeyTable ==
    \A label \in BOOLEAN, axis \in AxisClass, m \in Magnitudes :
        (m.fits /\ dispatched = GotLine(MoveLine(label, axis, m.text))) =>
            events = << Down(VK_CONTROL), Down(TableKey(axis, m.sign)),
                        Up(TableKey(axis, m.sign)), Up(VK_CONTROL) >>

\* A labelled move along Z by "-0" has been routed: page-down.
C2_Witness ==
    /\ dispatched = GotLine(MoveLine(TRUE, "Z", <<"-", "0">>))
    /\ Len(events) = 4
    /\ events[2] = Down(VK_PAGEDOWN)

\* C3: a line routed in Gcode mode adds the events of the literal-text path
\* and nothing else; none of them is a Ctrl or a directional key event.
C3_GcodeNoChord ==
    [][(LineStep /\ mode = "Gcode") =>
         /\ events' = events \o serial_to_gcode(Trim(dispatched'.line)).sent
         /\ \A i \in (Len(events) + 1)..Len(events') :
                events'[i].wVk \notin Directional \cup {VK_CONTROL}]_vars

\* A movement line has been routed in Gcode mode.
C3_Witness ==
    /\ dispatched = GotLine(LineRight)
    /\ mode = "Gcode"
    /\ last_command = Some(TypedRecord(Trim(LineRight)))
    /\ Len(events) = 2 * Len(Trim(LineRight)) + 2

\* C4: the mode is Gcode at startup, and afterwards it is Arrow exactly when
\* the last of the keys '1' and '2' dispatched was '1'; a step that handles
\* neither key leaves the mode as it is.
C4_ModeIsLastKey ==
    /\ [](/\ mode \in {"Arrow", "Gcode"}
          /\ (mode = "Arrow") <=> (mode_key = "1")
          /\ pc = "main" => mode = "Gcode")
    /\ [][~(KeyStep(Char("1")) \/ KeyStep(Char("2"))) => mode' = mode]_vars

\* '1', a line routed in Arrow mode, then '2': the mode is Gcode again.
C4_Witness ==
    /\ mode = "Gcode"
    /\ mode_key = "2"
    /\ last_command = Some(<<"h", "i">>)

\* C5: once the loop has been entered, no error ends it.
C5_LoopSurvivesErrors == pc # "loop_failed"

\* C6: no line aborts the process in the matcher.
C6_MatcherNeverAborts == fault # "unwrap"

\* Enter in Gcode mode with a non-empty buffer.
SendStep == KeyStep(Enter) /\ mode = "Gcode" /\ gcode_input # <<>>

\* The pending buffer followed by a single line feed, as bytes.
Wire == as_bytes(gcode_input) \o <<10>>

\* What a send that succeeds does to the session.
SendEffect ==
    /\ written' = written \o Wire
    /\ last_command' = Some(<<"S", "e", "n", "t", ":", " ">> \o gcode_input)
    /\ last_command_time' = Some(now')
    /\ now' > now
    /\ gcode_input' = <<>>

C8_EnterOnEmpty ==
    [][(KeyStep(Enter) /\ gcode_input = <<>>) =>
         /\ written' = written
         /\ last_command' = last_command
         /\ last_command_time' = last_command_time
         /\ gcode_input' = <<>>
         /\ mode' = mode]_vars

\* Enter has been handled in Gcode mode with nothing typed and nothing sent.
C8_Witness ==
    /\ dispatched = GotKey(Enter)
    /\ pc = "read_line"
    /\ mode = "Gcode"
    /\ gcode_input = <<>>
    /\ written = <<>>
    /\ last_command = None

\* C9: Backspace in Gcode mode removes exactly the last character of the
\* buffer (none when it is empty) and changes nothing else; a character
\* appended and then removed by it gives the buffer back.
C9_Backspace ==
    [][/\ (KeyStep(Backspace) /\ mode = "Gcode") =>
            /\ gcode_input' = IF gcode_input = <<>> THEN <<>>
                              ELSE SubSeq(gcode_input, 1, Len(gcode_input) - 1)
            /\ UNCHANGED <<mode, last_command, last_command_time, written,
                           events>>
       /\ \A c \in {"G", "0"} :
            (KeyStep(Char(c)) /\ mode = "Gcode") =>
                /\ gcode_input' = gcode_input \o <<c>>
                /\ pop(gcode_input') = gcode_input]_vars

\* Backspace has been handled on the buffer "G0".
C9_Witness ==
    /\ dispatched = GotKey(Backspace)
    /\ pc = "read_line"
    /\ mode = "Gcode"
    /\ gcode_input = <<"G">>

\* C10: the keys '1' and '2' leave the buffer and the record as they were;
\* no step taken in Arrow mode changes the buffer; and the buffer shrinks
\* only by a send (to nothing) or by Backspace (by one character).
C10_ModeSwitchKeepsBuffer ==
    [][/\ (KeyStep(Char("1")) \/ KeyStep(Char("2"))) =>
            UNCHANGED <<gcode_input, last_command, last_command_time>>
       /\ mode = "Arrow" => gcode_input' = gcode_input
       /\ Len(gcode_input') < Len(gcode_input) =>
            \/ SendStep /\ gcode_input' = <<>>
            \/ /\ KeyStep(Backspace)
               /\ mode = "Gcode"
               /\ Len(gcode_input') = Len(gcode_input) - 1]_vars

\* "G0" typed, then '1', a line routed in Arrow mode, then '2': the buffer
\* is still "G0".
C10_Witness ==
    /\ dispatched = GotKey(Char("2"))
    /\ mode = "Gcode"
    /\ gcode_input = <<"G", "0">>
    /\ last_command = Some(<<"h", "i">>)

\* The local keys that edit or send text: a printable character other than
\* '1', '2' and 'q', Backspace, Enter.
TextKeys == {Char("G"), Char("0"), Backspace, Enter}

\* C11: in Arrow mode a printable character other than '1', '2' and 'q', a
\* Backspace or an Enter changes neither the mode, the buffer, the record nor
\* its time, writes nothing to the port and emits no key event; the loop
\* goes on to its next tick.
C11_ArrowIgnoresText ==
    [][\A key \in TextKeys :
         (KeyStep(key) /\ mode = "Arrow") =>
             /\ UNCHANGED <<mode, gcode_input, last_command, last_command_time,
                            written, events>>
             /\ pc' = "read_line"]_vars

\* "G0" typed, then '1', then Backspace handled in Arrow mode: "G0" remains.
C11_Witness ==
    /\ dispatched = GotKey(Backspace)
    /\ mode = "Arrow"
    /\ pc = "read_line"
    /\ gcode_input = <<"G", "0">>

\* The text of a line of the model: the line without its terminator.
TextOf(raw) ==
    LET cut == SubSeq(raw, 1, Len(raw) - 1)
    IN  IF cut # <<>> /\ cut[Len(cut)] = "\r"
        THEN SubSeq(cut, 1, Len(cut) - 1)
        ELSE cut

\* The lines of the model outside the movement grammar, each with the text
\* the session is to record for it.
NonMovement ==
    { [line |-> LineText, text |-> <<"h", "i">>],
      [line |-> LineLabelled, text |-> <<"h", "i">>],
      [line |-> LineEmoji, text |-> TextOf(LineEmoji)],
      [line |-> Newline, text |-> <<>>] }

\* C12: a line outside the movement grammar routed in Arrow mode records its
\* text, trimmed and without the "GCODE: " label, emits no key event and
\* leaves the mode and the buffer as they were; so does every repetition.
C12_NonMatchRecorded ==
    [][\A n \in NonMovement :
         (LineStep /\ mode = "Arrow" /\ dispatched'.line = n.line) =>
             /\ last_command' = Some(n.text)
             /\ last_command_time' = Some(now')
             /\ events' = events
             /\ UNCHANGED <<mode, gcode_input, written>>]_vars

\* Two lines outside the grammar routed in Arrow mode, the second one
\* labelled: two clock readings, no event, no byte written.
C12_Witness ==
    /\ dispatched = GotLine(LineLabelled)
    /\ mode = "Arrow"
    /\ now = 2
    /\ events = <<>>
    /\ written = <<>>
    /\ last_command = Some(<<"h", "i">>)

\* The injection events that carry the character c: down, then up.
CharDown(c) == [wVk |-> 0, wScan |-> CodePoint(c), dwFlags |-> 4]
CharUp(c) == [wVk |-> 0, wScan |-> CodePoint(c), dwFlags |-> 6]

RECURSIVE Typing(_)
\* A down and an up event for each character of the text, in order.
Typing(text) ==
    IF text = <<>> THEN <<>>
    ELSE <<CharDown(Head(text)), CharUp(Head(text))>> \o Typing(Tail(text))

\* What C13 asks of a line routed in Gcode mode.
TypedEffect(raw) ==
    /\ events' = events \o Typing(TextOf(raw))
                        \o <<Down(VK_RETURN), Up(VK_RETURN)>>
    /\ last_command' = Some(<<"T", "y", "p", "e", "d", ":", " ">> \o TextOf(raw))
    /\ UNCHANGED <<mode, gcode_input>>

\* C13: a line with text T routed in Gcode mode emits, for each character
\* of T in order, the down and the up event of that character, then one
\* Enter down and one Enter up; the record becomes "Typed: T"; the mode and
\* the buffer stay as they were.
C13_TypedSequence ==
    [][\A raw \in Lines :
         (LineStep /\ mode = "Gcode" /\ dispatched'.line = raw) =>
             TypedEffect(raw)]_vars

\* C14: the step that handles 'q' ends the process and changes no field of
\* the session, writes nothing and emits nothing; and no step is taken once
\* the process has ended.
C14_QuitIsTerminal ==
    [][/\ KeyStep(Char("q")) =>
            /\ pc' = "exited"
            /\ UNCHANGED <<mode, connected, last_command, last_command_time,
                           gcode_input, written, events>>
       /\ pc # "exited"]_vars

\* "G0" typed in Gcode mode, then 'q': the process has ended, "G0" pending.
C14_Witness ==
    /\ pc = "exited"
    /\ dispatched = GotKey(Char("q"))
    /\ mode = "Gcode"
    /\ gcode_input = <<"G", "0">>

\* C18: when the process has ended by 'q' or by an error that left the event
\* loop, the terminal is out of raw mode.
C18_RawModeRestored == pc \in {"exited", "loop_failed"} => ~raw_mode

\* C19: the pending buffer holds none of '1', '2', 'q', and neither does
\* what has been written to the port.
C19_NoCommandKeysBuffered ==
    /\ \A i \in DOMAIN gcode_input : gcode_input[i] \notin {"1", "2", "q"}
    /\ \A i \in DOMAIN written : written[i] \notin {49, 50, 113}

\* "G" typed in Gcode mode, then '1': the buffer is "G" and the mode Arrow.
C19_Witness ==
    /\ dispatched = GotKey(Char("1"))
    /\ mode = "Arrow"
    /\ gcode_input = <<"G">>
    /\ pc = "read_line"

\* C20: the trace of injected events grows only in a step that routes a
\* line; no step that handles a local key adds to it.
C20_EventsOnlyFromLines ==
    [][/\ events' # events => LineStep
       /\ \A key \in Keys : KeyStep(key) => events' = events]_vars

\* A line has been typed out in Gcode mode and then a command sent with
\* Enter: the events are those of the line alone.
C20_Witness ==
    /\ dispatched = GotKey(Enter)
    /\ written # <<>>
    /\ last_command = Some(<<"S", "e", "n", "t", ":", " ", "G">>)
    /\ events = Typing(<<"h", "i">>) \o <<Down(VK_RETURN), Up(VK_RETURN)>>

\* The lines routed so far.
RoutedLines == [i \in DOMAIN routed |-> routed[i].line]

\* What routing does to the event trace in each mode, for the lines the
\* pendant sends: a chord for a move in Arrow mode, nothing for other text
\* in Arrow mode, the text and Enter in Gcode mode.
RoutedAs(m, raw) ==
    CASE m = "Arrow" /\ raw \in MovementLines ->
            /\ Len(events') = Len(events) + 4
            /\ SubSeq(events', 1, Len(events)) = events
            /\ ChordAt(events', Len(events) + 1)
      [] m = "Arrow" /\ raw \notin MovementLines -> events' = events
      [] OTHER ->
            events' = events \o Typing(TextOf(raw))
                             \o <<Down(VK_RETURN), Up(VK_RETURN)>>

\* C15: when a tick starts with a complete line received and a key event
\* queued, the step the process takes routes the line, by the mode the
\* session holds at that moment, and leaves the key in its queue; a key is
\* taken from the queue only in the local-input phase, and it is the first
\* of the queue.
C15_SerialBeforeKeys ==
    [][/\ (pc = "read_line" /\ HasLine(inbound) /\ keyboard # <<>> /\ pc' # pc) =>
            /\ LineStep
            /\ dispatched'.line = FirstLine(inbound)
            /\ RoutedAs(mode, FirstLine(inbound))
            /\ UNCHANGED <<keyboard, mode, mode_key>>
       /\ keyboard' # keyboard /\ presses' = presses =>
            /\ pc = "poll"
            /\ KeyStep(Head(keyboard))
            /\ keyboard' = Tail(keyboard)]_vars

\* '1' handled, then a tick that started with the move received and '2'
\* queued: the chord has been sent and the mode is Gcode.
C15_Witness ==
    /\ pc = "read_line"
    /\ dispatched = GotKey(Char("2"))
    /\ mode = "Gcode"
    /\ presses = MaxKeys - 2
    /\ routed = <<[line |-> LineDown, waiting |-> 1]>>
    /\ events = <<Down(VK_CONTROL), Down(VK_DOWN), Up(VK_DOWN), Up(VK_CONTROL)>>

\* C16: the lines routed are, in order, the first lines the pendant sent:
\* none dropped, none split, none routed in part.
C16_LinesRoutedAsSent ==
    /\ Len(routed) <= Len(device.lines)
    /\ \A i \in DOMAIN routed : routed[i].line = device.lines[i]

\* The key events not yet handled: those queued and those still to press.
Outstanding == presses + Len(keyboard)

\* C17: while the process is in the loop, a queued key event is handled or
\* the process ends, and so for a received line; when the device never
\* sends, the queued key event is handled, and when no key is ever pressed,
\* the received line is routed.
C17_NoStall ==
    /\ \A h \in 1..LiveKeys :
          (Running /\ keyboard # <<>> /\ Outstanding = h)
              ~> (Outstanding < h \/ ~Running)
    /\ \A n \in 0..LiveLines :
          (Running /\ HasLine(inbound) /\ Len(routed) = n)
              ~> (Len(routed) > n \/ ~Running)
    /\ [](inbound = <<>>) =>
          \A h \in 1..LiveKeys :
              (Running /\ keyboard # <<>> /\ Outstanding = h) ~> (Outstanding < h)
    /\ [](keyboard = <<>>) =>
          \A n \in 0..LiveLines :
              (Running /\ HasLine(inbound) /\ Len(routed) = n)
                  ~> (Len(routed) > n)

\* The device has sent nothing and a key has been handled; the loop is in
\* its next tick.
C17_Witness ==
    /\ pc = "read_line"
    /\ dispatched = GotKey(Char("1"))
    /\ device.wire = Writes(device.lines)
    /\ inbound = <<>>
    /\ routed = <<>>
    /\ Outstanding = LiveKeys - 1

====
